---- MODULE Spec2Model ----
(***************************************************************************)
(* The UDP capture pipeline of owpy: the Receive Loop (udp_data_receiver,  *)
(* a separate process), the Capture Coordinator (iq_capture_app_udp, the   *)
(* invoking process), the queue and the two events between them.           *)
(* Every step that touches shared state (an event, a queue, the socket) is *)
(* one action; process-local computation is folded into the step before it.*)
(***************************************************************************)
EXTENDS Integers, Sequences, FiniteSets, TLC

(***************************************************************************)
(* Program constants                                                       *)
(***************************************************************************)
\* udp_data_receiver(..., max_timeout_count=10)
max_timeout_count == 10
\* continue_loop(..., max_wait_time=60): the startup grace period, seconds
max_wait_time == 60
\* multiprocessing.Manager().Queue() is created without a maxsize: 0, and a
\* maxsize <= 0 means the queue never reports Full
udp_queue_maxsize == 0
\* get_data_type reads data[DATA_BIT_DMA_SYMBOL_IDX*8 + DATA_BIT_BYTE_IDX]
DATA_BIT_DMA_SYMBOL_IDX == 1
DATA_BIT_BYTE_IDX == 7
\* DATA_TYPE_LIST = {'csi' : 0, 'iq' : 1}
DATA_TYPE_CSI == 0
DATA_TYPE_IQ == 1
IQ_HEADER_LEN_DMA_SYM == 3
CSI_HEADER_LEN_DMA_SYM == 8
CSI_LEN_DMA_SYM == 56
EQUALIZER_LEN_DMA_SYM == 52

(***************************************************************************)
(* Bounds of the model                                                     *)
(***************************************************************************)
\* non-empty datagrams the socket delivers in one run
MaxPayloads == 2
\* once a datagram has arrived, a silence is followed for this many
\* timeouts; a silence from the start is followed to the escalation
MaxSilenceAfterData == 1
\* params.iq_len and params.num_eq of the run
IqLen == 1
NumEq == 0
\* between two readings the clock advances by 0 or TickStep seconds, and is
\* followed up to MaxElapsed seconds (no threshold lies above it)
TickStep == 30
MaxElapsed == 90
\* finite sampling durations tried: one below, one above the grace period
ShortSampling == 30
LongSampling == 90
\* maxsize of the optional downstream queue (queue_rx_data_capture)
DownMaxSize == 1
\* the ghost counters of operations after shutdown stop counting here
MaxGhost == 2

SamplingTimes == {-1, ShortSampling, LongSampling}

(***************************************************************************)
(* Payloads: a datagram is known by its length in bytes and, when it has a *)
(* byte 15, by the top bit of that byte; id is the order of arrival.       *)
(***************************************************************************)
iq_num_dma_symbol_per_trans == IQ_HEADER_LEN_DMA_SYM + IqLen
csi_num_dma_symbol_per_trans ==
  CSI_HEADER_LEN_DMA_SYM + CSI_LEN_DMA_SYM + NumEq * EQUALIZER_LEN_DMA_SYM
iq_bytes_per_trans == iq_num_dma_symbol_per_trans * 8
csi_bytes_per_trans == csi_num_dma_symbol_per_trans * 8

\* shapes a datagram may have: too short to hold byte 15, one IQ
\* transaction, one IQ transaction plus a DMA symbol, one CSI transaction
DatagramShapes ==
  { [len |-> 8, typ |-> 0],
    [len |-> iq_bytes_per_trans, typ |-> DATA_TYPE_IQ],
    [len |-> iq_bytes_per_trans + 8, typ |-> DATA_TYPE_IQ],
    [len |-> csi_bytes_per_trans, typ |-> DATA_TYPE_CSI] }

VARIABLES
  sampling_time,     \* params.sampling_time
  has_down,          \* queue_rx_data_capture is not None
  data_gen,          \* params.data_gen_enable and queue_tx_data_gen is not None,
                     \* "unread" until the coordinator reads it
  shutdown_event,    \* the shared shutdown signal
  udp_fail_event,    \* the shared fault signal
  udp_queue,         \* the queue between the two processes
  rx_pc,             \* where the Receive Loop is
  timeout_count,     \* its counter
  udp_data,          \* the payload it is about to push
  sock,              \* the socket of its UDPHandler
  co_pc,             \* where the Capture Coordinator is
  frame_idx,         \* its running frame total
  elapsed,           \* TIMER() - start, as the coordinator last read it
  last_sample,       \* local_machine_last_sample_unix - start
  co_exc,            \* an exception is propagating out of the coordinator
  down_len,          \* items waiting in the downstream queue
  stats_printed,     \* print_capture_info has printed
  peer_stop,         \* 'exit' was sent to the data generator
  n_recv,            \* history: non-empty datagrams received so far
  n_popped,          \* history: payloads popped so far
  consec_timeouts,   \* history: receive outcomes since the last non-Timeout
  last_outcome,      \* history: the last receive outcome
  sd_recvs,          \* history: receive calls made with shutdown set
  sd_pushes,         \* history: pushes made with shutdown set
  sd_pops,           \* history: pops made with shutdown set
  sd_continues,      \* history: continue_loop returning True with shutdown set
  loop_exit,         \* history: how the coordinator's loop was left
  dec_pc,            \* the decoder harness: "off", "ready" or "done"
  dec_in,            \* the buffer and parameters a decoder function is given
  dec_out            \* what the decoder function gave back

cfg_vars == <<sampling_time, has_down, data_gen>>
shared_vars == <<shutdown_event, udp_fail_event, udp_queue>>
rx_vars == <<rx_pc, timeout_count, udp_data, sock>>
co_vars == <<co_pc, frame_idx, elapsed, last_sample, co_exc, down_len,
             stats_printed, peer_stop>>
rx_hist == <<n_recv, consec_timeouts, last_outcome, sd_recvs, sd_pushes>>
co_hist == <<n_popped, sd_pops, sd_continues, loop_exit>>
dec_vars == <<dec_pc, dec_in, dec_out>>
vars == <<cfg_vars, shared_vars, rx_vars, co_vars, rx_hist, co_hist, dec_vars>>

NoData == [id |-> 0, len |-> 0, typ |-> 0]
\* the decoder harness at rest: nothing given, nothing returned
NoInput == [op |-> "none", buf |-> <<>>, spt |-> 0, num_eq |-> 0]
NoOutput == [status |-> "none", value |-> <<>>]
Bump(n) == IF n < MaxGhost THEN n + 1 ELSE n

Init ==
  /\ sampling_time \in SamplingTimes
  /\ has_down \in BOOLEAN
  /\ data_gen = "unread"
  /\ shutdown_event = FALSE
  /\ udp_fail_event = FALSE
  /\ udp_queue = <<>>
  /\ rx_pc = "construct"
  /\ timeout_count = 0
  /\ udp_data = NoData
  /\ sock = "unbound"
  /\ co_pc = "check"
  /\ frame_idx = 0
  /\ elapsed = 0
  /\ last_sample = "unset"
  /\ co_exc = FALSE
  /\ down_len = 0
  /\ stats_printed = FALSE
  /\ peer_stop = FALSE
  /\ n_recv = 0
  /\ n_popped = 0
  /\ consec_timeouts = 0
  /\ last_outcome = "none"
  /\ sd_recvs = 0
  /\ sd_pushes = 0
  /\ sd_pops = 0
  /\ sd_continues = 0
  /\ loop_exit = "none"
  /\ dec_pc = "off"
  /\ dec_in = NoInput
  /\ dec_out = NoOutput

(***************************************************************************)
(* The Receive Loop                                                        *)
(***************************************************************************)
\* UDPHandler(): the constructor runs before the try block of the worker; a
\* socket.error raised by bind leaves the worker dead, with no event set
RxConstruct ==
  /\ rx_pc = "construct"
  /\ \E bound \in BOOLEAN :
       IF bound
       THEN sock' = "bound" /\ rx_pc' = "loop_head"
       ELSE sock' = sock /\ rx_pc' = "crashed"
  /\ UNCHANGED <<dec_vars, cfg_vars, shared_vars, timeout_count, udp_data, co_vars,
                 rx_hist, co_hist>>

\* while not shutdown_event.is_set() and not udp_fail_event.is_set()
RxLoopCondition == ~shutdown_event /\ ~udp_fail_event

RxLoopHead ==
  /\ rx_pc = "loop_head"
  /\ rx_pc' = IF RxLoopCondition THEN "recv" ELSE "finally"
  /\ UNCHANGED <<dec_vars, cfg_vars, shared_vars, timeout_count, udp_data, sock,
                 co_vars, rx_hist, co_hist>>

\* the comparison off by one
TimeoutExceeded_OffByOne(c) == c > max_timeout_count + 1

\* if timeout_count > max_timeout_count
TimeoutExceeded(c) == c > max_timeout_count

\* udp_handler.receive_data returns "timeout"
RxTimeout ==
  /\ rx_pc = "recv"
  /\ n_recv = 0 \/ timeout_count < MaxSilenceAfterData
  /\ timeout_count' = timeout_count + 1
  /\ rx_pc' = IF TimeoutExceeded(timeout_count') THEN "set_fail"
              ELSE "loop_head"
  /\ consec_timeouts' = consec_timeouts + 1
  /\ last_outcome' = "timeout"
  /\ sd_recvs' = IF shutdown_event THEN Bump(sd_recvs) ELSE sd_recvs
  /\ UNCHANGED <<dec_vars, cfg_vars, shared_vars, udp_data, sock, co_vars, n_recv,
                 sd_pushes, co_hist>>

\* an "exception" outcome that is logged and retried
SentinelTarget_RetryOnException(o) ==
  IF o = "exception" THEN "loop_head" ELSE "set_shutdown"

\* where the loop goes after "keyboard_interrupt" or "exception"
SentinelTarget(o) == "set_shutdown"

\* udp_handler.receive_data returns "keyboard_interrupt" or "exception"
RxSentinel ==
  /\ rx_pc = "recv"
  /\ \E o \in {"keyboard_interrupt", "exception"} :
       /\ last_outcome' = o
       /\ rx_pc' = SentinelTarget(o)
  /\ consec_timeouts' = 0
  /\ sd_recvs' = IF shutdown_event THEN Bump(sd_recvs) ELSE sd_recvs
  /\ UNCHANGED <<dec_vars, cfg_vars, shared_vars, timeout_count, udp_data, sock,
                 co_vars, n_recv, sd_pushes, co_hist>>

\* udp_handler.receive_data returns a datagram of zero bytes: `if udp_data:`
\* is false for b"", the iteration does nothing
RxEmpty ==
  /\ rx_pc = "recv"
  /\ rx_pc' = "loop_head"
  /\ consec_timeouts' = 0
  /\ last_outcome' = "empty"
  /\ sd_recvs' = IF shutdown_event THEN Bump(sd_recvs) ELSE sd_recvs
  /\ UNCHANGED <<dec_vars, cfg_vars, shared_vars, timeout_count, udp_data, sock,
                 co_vars, n_recv, sd_pushes, co_hist>>

\* udp_handler.receive_data returns a datagram of at least one byte
RxData ==
  /\ rx_pc = "recv"
  /\ n_recv < MaxPayloads
  /\ \E s \in DatagramShapes :
       udp_data' = [id |-> n_recv + 1, len |-> s.len, typ |-> s.typ]
  /\ n_recv' = n_recv + 1
  /\ rx_pc' = "put"
  /\ consec_timeouts' = 0
  /\ last_outcome' = "data"
  /\ sd_recvs' = IF shutdown_event THEN Bump(sd_recvs) ELSE sd_recvs
  /\ UNCHANGED <<dec_vars, cfg_vars, shared_vars, timeout_count, sock, co_vars,
                 sd_pushes, co_hist>>

\* udp_fail_event.set()
RxSetFail ==
  /\ rx_pc = "set_fail"
  /\ udp_fail_event' = TRUE
  /\ rx_pc' = "set_shutdown"
  /\ UNCHANGED <<dec_vars, cfg_vars, shutdown_event, udp_queue, timeout_count,
                 udp_data, sock, co_vars, rx_hist, co_hist>>

\* a break that forgets shutdown_event.set()
RxSetShutdown_BreakOnly ==
  /\ rx_pc = "set_shutdown"
  /\ rx_pc' = "finally"
  /\ UNCHANGED <<dec_vars, cfg_vars, shared_vars, timeout_count, udp_data, sock,
                 co_vars, rx_hist, co_hist>>

\* shutdown_event.set(); break
RxSetShutdown ==
  /\ rx_pc = "set_shutdown"
  /\ shutdown_event' = TRUE
  /\ rx_pc' = "finally"
  /\ UNCHANGED <<dec_vars, cfg_vars, udp_fail_event, udp_queue, timeout_count,
                 udp_data, sock, co_vars, rx_hist, co_hist>>

\* Queue.put_nowait raises Full when maxsize > 0 and the queue holds maxsize
QueueFull(q, maxsize) == maxsize > 0 /\ Len(q) >= maxsize

\* a put that serves the newest payload first
put_nowait_Front(q, item) == <<item>> \o q

\* what put_nowait leaves in a queue with room: the item behind the others
put_nowait(q, item) == Append(q, item)

\* udp_queue.put_nowait(udp_data); timeout_count = 0.  When put_nowait
\* raises (the queue is full, or the proxy call fails), `except Queue.Full`
\* is evaluated: multiprocessing.Queue is a function without attribute
\* Full, so an AttributeError leaves the inner try, the outer
\* `except Exception` logs it, and the loop is left.
RxPut ==
  /\ rx_pc = "put"
  /\ \E proxy_ok \in BOOLEAN :
       IF proxy_ok /\ ~QueueFull(udp_queue, udp_queue_maxsize)
       THEN /\ udp_queue' = put_nowait(udp_queue, udp_data)
            /\ timeout_count' = 0
            /\ rx_pc' = "loop_head"
            /\ sd_pushes' = IF shutdown_event THEN Bump(sd_pushes)
                            ELSE sd_pushes
       ELSE /\ rx_pc' = "finally"
            /\ UNCHANGED <<udp_queue, timeout_count, sd_pushes>>
  /\ udp_data' = NoData
  /\ UNCHANGED <<dec_vars, cfg_vars, shutdown_event, udp_fail_event, sock, co_vars,
                 n_recv, consec_timeouts, last_outcome, sd_recvs, co_hist>>

\* a finally block without udp_handler.close()
SockAfterFinally_NoClose(s) == s

\* what the finally block leaves of the socket: udp_handler.close()
SockAfterFinally(s) == "closed"

RxFinally ==
  /\ rx_pc = "finally"
  /\ sock' = SockAfterFinally(sock)
  /\ rx_pc' = "done"
  /\ UNCHANGED <<dec_vars, cfg_vars, shared_vars, timeout_count, udp_data, co_vars,
                 rx_hist, co_hist>>

RxNext ==
  \/ RxConstruct
  \/ RxLoopHead
  \/ RxTimeout
  \/ RxSentinel
  \/ RxEmpty
  \/ RxData
  \/ RxSetFail
  \/ RxSetShutdown
  \/ RxPut
  \/ RxFinally

(***************************************************************************)
(* The Capture Coordinator                                                 *)
(***************************************************************************)
LoopPcs == {"check", "poll", "get", "forward"}

\* continue_loop without its check of the shutdown event
continue_loop_NoShutdownCheck(st, el, fi, sd) ==
  IF st = -1 \/ (fi = 0 /\ el < max_wait_time) THEN TRUE
  ELSE el < st

\* continue_loop with the duration compared by <=
continue_loop_DurationInclusive(st, el, fi, sd) ==
  IF sd THEN FALSE
  ELSE IF st = -1 \/ (fi = 0 /\ el < max_wait_time) THEN TRUE
  ELSE el <= st

\* continue_loop(params, start, frame_idx, shutdown_event); el is
\* TIMER() - start
continue_loop(st, el, fi, sd) ==
  IF sd THEN FALSE
  ELSE IF st = -1 \/ (fi = 0 /\ el < max_wait_time) THEN TRUE
  ELSE el < st

\* what TIMER() - start may read, given the last reading: the clock does
\* not go back.  A reading of MaxElapsed stands for MaxElapsed or more.
TimerReadings(el) ==
  {el} \cup (IF el < MaxElapsed
             THEN {IF el + TickStep < MaxElapsed THEN el + TickStep
                   ELSE MaxElapsed}
             ELSE {})

CoCheck ==
  /\ co_pc = "check"
  /\ \E now \in TimerReadings(elapsed) :
       LET go == continue_loop(sampling_time, now, frame_idx, shutdown_event)
       IN /\ elapsed' = now
          /\ co_pc' = IF go THEN "poll" ELSE "cleanup"
          /\ sd_continues' = IF go /\ shutdown_event
                             THEN Bump(sd_continues) ELSE sd_continues
          /\ loop_exit' = IF go THEN loop_exit ELSE "condition"
  /\ UNCHANGED <<dec_vars, cfg_vars, shared_vars, rx_vars, frame_idx, last_sample,
                 co_exc, down_len, stats_printed, peer_stop, rx_hist,
                 n_popped, sd_pops>>

\* the pop issued without the check of udp_queue.empty()
CoPoll_NoEmptyCheck ==
  /\ co_pc = "poll"
  /\ co_pc' = "get"
  /\ UNCHANGED <<dec_vars, cfg_vars, shared_vars, rx_vars, frame_idx, elapsed,
                 last_sample, co_exc, down_len, stats_printed, peer_stop,
                 rx_hist, co_hist>>

\* if not udp_queue.empty()
CoPoll ==
  /\ co_pc = "poll"
  /\ co_pc' = IF udp_queue # <<>> THEN "get" ELSE "check"
  /\ UNCHANGED <<dec_vars, cfg_vars, shared_vars, rx_vars, frame_idx, elapsed,
                 last_sample, co_exc, down_len, stats_printed, peer_stop,
                 rx_hist, co_hist>>

\* get_data_type(data): data[15] >> 7; indexing past the end of the bytes
\* raises IndexError
GetDataTypeRaises(p) ==
  p.len <= DATA_BIT_DMA_SYMBOL_IDX * 8 + DATA_BIT_BYTE_IDX

get_data_type(p) == p.typ

\* is_abnormal_length(queue_data, data_type_idx, iq_bytes_per_trans,
\*                    csi_bytes_per_trans)
is_abnormal_length(len, data_type_idx, iq_bytes, csi_bytes) ==
  IF data_type_idx = DATA_TYPE_IQ THEN len % iq_bytes # 0
  ELSE IF data_type_idx = DATA_TYPE_CSI THEN len % csi_bytes # 0
  ELSE FALSE

\* Python's round(a / b) for a >= 0, b > 0: to the nearest integer, a tie
\* to the even one
Round(a, b) ==
  LET q == a \div b
      r == a % b
  IN IF 2 * r < b THEN q
     ELSE IF 2 * r > b THEN q + 1
     ELSE IF q % 2 = 0 THEN q ELSE q + 1

\* n_frames of process_and_save_iq / process_and_save_csi: the rows of the
\* buffer of uint16 reshaped to [num_frames, num_int16_per_trans]; 0 when
\* the IQ reshape fails
n_frames_of(p) ==
  LET len16 == p.len \div 2
      per == IF get_data_type(p) = DATA_TYPE_IQ
             THEN iq_num_dma_symbol_per_trans * 4
             ELSE csi_num_dma_symbol_per_trans * 4
      rows == Round(len16, per)
  IN IF rows * per = len16 THEN rows ELSE 0

\* process_and_save_csi raises for every buffer: parse_csi_side_info_header
\* runs `for i, name in csi_timestamp_names[1:]` over CSI_TIMESTAMP_NAMES, a
\* list of strings, and unpacking a string of more than two characters into
\* (i, name) is a ValueError.  process_and_save_iq raises for no buffer that
\* passed is_abnormal_length.
DecodeRaises(p) == get_data_type(p) = DATA_TYPE_CSI

\* queue_data = udp_queue.get_nowait() and the handling of the payload up
\* to the forwarding step.  The start time is reset (first frame) before
\* the payload is decoded.
CoGet ==
  /\ co_pc = "get"
  /\ udp_queue # <<>>
  /\ LET p == Head(udp_queue)
     IN /\ udp_queue' = Tail(udp_queue)
        /\ n_popped' = n_popped + 1
        /\ sd_pops' = IF shutdown_event THEN Bump(sd_pops) ELSE sd_pops
        /\ IF GetDataTypeRaises(p)
           THEN /\ co_exc' = TRUE
                /\ co_pc' = "cleanup"
                /\ loop_exit' = "error"
                /\ UNCHANGED <<frame_idx, elapsed, last_sample>>
           ELSE IF is_abnormal_length(p.len, get_data_type(p),
                                      iq_bytes_per_trans, csi_bytes_per_trans)
           THEN /\ co_pc' = "check"
                /\ UNCHANGED <<frame_idx, elapsed, last_sample, co_exc,
                               loop_exit>>
           ELSE /\ elapsed' = IF frame_idx = 0 THEN 0 ELSE elapsed
                /\ last_sample' = IF frame_idx = 0 THEN "start" ELSE "later"
                /\ IF DecodeRaises(p)
                   THEN /\ co_exc' = TRUE
                        /\ co_pc' = "cleanup"
                        /\ loop_exit' = "error"
                        /\ UNCHANGED frame_idx
                   ELSE /\ frame_idx' = frame_idx + n_frames_of(p)
                        /\ co_pc' = IF has_down THEN "forward" ELSE "check"
                        /\ UNCHANGED <<co_exc, loop_exit>>
  /\ UNCHANGED <<dec_vars, cfg_vars, shutdown_event, udp_fail_event, rx_vars,
                 down_len, stats_printed, peer_stop, rx_hist, sd_continues>>

\* queue_rx_data_capture.put_nowait([n_frames, data_dict]).  When it raises
\* Full, `except Queue.Full` raises AttributeError (see RxPut), which no
\* handler of the coordinator catches: the finally block runs _cleanup and
\* the error leaves iq_capture_app_udp.
CoForward ==
  /\ co_pc = "forward"
  /\ IF down_len < DownMaxSize
     THEN /\ down_len' = down_len + 1
          /\ co_pc' = "check"
          /\ UNCHANGED <<co_exc, loop_exit>>
     ELSE /\ co_exc' = TRUE
          /\ co_pc' = "cleanup"
          /\ loop_exit' = "down_full"
          /\ UNCHANGED down_len
  /\ UNCHANGED <<dec_vars, cfg_vars, shared_vars, rx_vars, frame_idx, elapsed,
                 last_sample, stats_printed, peer_stop, rx_hist, n_popped,
                 sd_pops, sd_continues>>

\* except KeyboardInterrupt: print('User quit')
CoInterrupt ==
  /\ co_pc \in LoopPcs
  /\ co_pc' = "cleanup"
  /\ loop_exit' = "interrupt"
  /\ UNCHANGED <<dec_vars, cfg_vars, shared_vars, rx_vars, frame_idx, elapsed,
                 last_sample, co_exc, down_len, stats_printed, peer_stop,
                 rx_hist, n_popped, sd_pops, sd_continues>>

\* _cleanup(): if not shutdown_event.is_set(): shutdown_event.set()
CoCleanupSet ==
  /\ co_pc = "cleanup"
  /\ shutdown_event' = TRUE
  /\ co_pc' = "join"
  /\ UNCHANGED <<dec_vars, cfg_vars, udp_fail_event, udp_queue, rx_vars, frame_idx,
                 elapsed, last_sample, co_exc, down_len, stats_printed,
                 peer_stop, rx_hist, co_hist>>

\* _cleanup(): receiver_process.join() returns when the worker has ended;
\* then a pending exception leaves the function
CoJoin ==
  /\ co_pc = "join"
  /\ rx_pc \in {"done", "crashed"}
  /\ co_pc' = IF co_exc THEN "crashed" ELSE "summary"
  /\ UNCHANGED <<dec_vars, cfg_vars, shared_vars, rx_vars, frame_idx, elapsed,
                 last_sample, co_exc, down_len, stats_printed, peer_stop,
                 rx_hist, co_hist>>

\* print_capture_info(start, end, frame_idx): rate = frame_idx / duration
\* raises ZeroDivisionError when end = start.  With frames, end is
\* local_machine_last_sample_unix, which is start itself until a second
\* payload is decoded.
DurationIsZero(fi, ls) == fi > 0 /\ ls = "start"

CoSummary ==
  /\ co_pc = "summary"
  /\ IF DurationIsZero(frame_idx, last_sample)
     THEN /\ co_exc' = TRUE
          /\ co_pc' = "crashed"
          /\ UNCHANGED stats_printed
     ELSE /\ stats_printed' = TRUE
          /\ co_pc' = "stop_peer"
          /\ UNCHANGED co_exc
  /\ UNCHANGED <<dec_vars, cfg_vars, shared_vars, rx_vars, frame_idx, elapsed,
                 last_sample, down_len, peer_stop, rx_hist, co_hist>>

\* if params.data_gen_enable and queue_tx_data_gen is not None:
\*   queue_tx_data_gen.put_nowait('exit')
CoStopPeer ==
  /\ co_pc = "stop_peer"
  /\ \E configured \in BOOLEAN :
       /\ data_gen' = IF configured THEN "yes" ELSE "no"
       /\ peer_stop' = configured
  /\ co_pc' = "done"
  /\ UNCHANGED <<dec_vars, sampling_time, has_down, shared_vars, rx_vars, frame_idx,
                 elapsed,
                 last_sample, co_exc, down_len, stats_printed, rx_hist,
                 co_hist>>

CoNext ==
  \/ CoCheck
  \/ CoPoll
  \/ CoGet
  \/ CoForward
  \/ CoInterrupt
  \/ CoCleanupSet
  \/ CoJoin
  \/ CoSummary
  \/ CoStopPeer

(***************************************************************************)
(* The environment                                                         *)
(***************************************************************************)
\* the holder of a shutdown_event passed to iq_capture_app_udp sets it
ExternalShutdown ==
  /\ ~shutdown_event
  /\ co_pc \in LoopPcs
  /\ shutdown_event' = TRUE
  /\ UNCHANGED <<dec_vars, cfg_vars, udp_fail_event, udp_queue, rx_vars, co_vars,
                 rx_hist, co_hist>>

\* the consumer of queue_rx_data_capture takes an item
DownConsume ==
  /\ has_down
  /\ down_len > 0
  /\ down_len' = down_len - 1
  /\ UNCHANGED <<dec_vars, cfg_vars, shared_vars, rx_vars, co_pc, frame_idx, elapsed,
                 last_sample, co_exc, stats_printed, peer_stop, rx_hist,
                 co_hist>>

Next ==
  \/ RxNext
  \/ CoNext
  \/ ExternalShutdown
  \/ DownConsume

Spec == Init /\ [][Next]_vars

\* The steps the two processes take by themselves: every call they make
\* returns (receive_data within its timeout, the events and queues at once),
\* so a process that can step does.  A KeyboardInterrupt, an external
\* shutdown and the downstream consumer are not owed.
CoProgram ==
  \/ CoCheck
  \/ CoPoll
  \/ CoGet
  \/ CoForward
  \/ CoCleanupSet
  \/ CoJoin
  \/ CoSummary
  \/ CoStopPeer

\* the clock does advance: of the readings the loop check takes, some are
\* later than the one before
ClockAdvances == CoCheck /\ elapsed' > elapsed

FairSpec ==
  Spec /\ WF_vars(RxNext) /\ WF_vars(CoProgram) /\ SF_vars(ClockAdvances)


(***************************************************************************)
(* The binary decoder (owpy.capture.data_parsers).  A buffer is the        *)
(* sequence of uint16 words np.frombuffer gives; index i of the code is    *)
(* index i + 1 here.  An unsigned integer wider than a word is kept as     *)
(* four 16-bit limbs, least significant first, and the arithmetic of the   *)
(* code is done on the limbs with the carries and the wrap of its dtype    *)
(* (NumPy's promotion of a uint16 array with a Python integer by value).   *)
(***************************************************************************)
\* pow(2,16), pow(2,32), pow(2,48) of get_uint64: the words are 16 bits wide
WordBits == 16
WordBase == 2 ^ WordBits
LO_FREQ_BIT_WIDTH == 29
IQ_CAPTURE_TIMESTAMP_IDX == 0
IQ_CAPTURE_LO_FREQ_IDX == 4
IQ_CAPTURE_LO_FREQ_OFFSET == 32
IQ_CAPTURE_ALL_ANTENNA_OFFSET == 61
IQ_CAPTURE_TRIGGER_SRC_OFFSET == 62
IQ_CAPTURE_IQ_IDX == 12
CSI_CAPTURE_TIMESTAMP_IDX == 0
CSI_FREQ_OFFSET_EST_IDX == 4
CSI_CAPTURE_LO_FREQ_OFFSET == 32
TIMESTAMPS_EXTRA_IDX == 8
\* CSI_LEN_HALF_DMA_SYM = round(CSI_LEN_DMA_SYM / 2)
CSI_LEN_HALF_DMA_SYM == Round(CSI_LEN_DMA_SYM, 2)
\* files.CSI_TIMESTAMP_NAMES: a list of seven strings
CSI_TIMESTAMP_NAMES ==
  << "timestamp_phy_tx_start", "timestamp_phy_tx_started",
     "timestamp_tx_intf_iq0_sample0", "timestamp_short_preamble_detected",
     "timestamp_long_preamble_detected", "timestamp_csi_valid",
     "timestamp_pkt_header_valid_strobe" >>

Limb(h, i) == IF i \in 1..Len(h) THEN h[i] ELSE 0

\* pow(2, 16*k) * w for a uint16 array element w: NumPy gives the product
\* the smallest unsigned type that holds the Python integer pow(2, 16*k),
\* n limbs wide, and the product wraps to that type
ScaleWord(w, k, n) ==
  <<IF k = 0 /\ n >= 1 THEN w ELSE 0,
    IF k = 1 /\ n >= 2 THEN w ELSE 0,
    IF k = 2 /\ n >= 3 THEN w ELSE 0,
    IF k = 3 /\ n >= 4 THEN w ELSE 0>>

\* a + b in an unsigned type of n limbs, wrapping to it
AddU(a, b, n) ==
  LET s1 == a[1] + b[1]
      s2 == a[2] + b[2] + s1 \div WordBase
      s3 == a[3] + b[3] + s2 \div WordBase
      s4 == a[4] + b[4] + s3 \div WordBase
  IN <<IF n >= 1 THEN s1 % WordBase ELSE 0,
       IF n >= 2 THEN s2 % WordBase ELSE 0,
       IF n >= 3 THEN s3 % WordBase ELSE 0,
       IF n >= 4 THEN s4 % WordBase ELSE 0>>

\* h * m for a small Python integer m, in uint64
MulU(h, m) ==
  LET p1 == h[1] * m
      p2 == h[2] * m + p1 \div WordBase
      p3 == h[3] * m + p2 \div WordBase
      p4 == h[4] * m + p3 \div WordBase
  IN <<p1 % WordBase, p2 % WordBase, p3 % WordBase, p4 % WordBase>>

\* limb i of h >> n
ShiftedLimb(h, n, i) ==
  LET ws == n \div WordBits
      bs == n % WordBits
  IN (Limb(h, i + ws) \div (2 ^ bs))
     + (Limb(h, i + ws + 1) % (2 ^ bs)) * (2 ^ (WordBits - bs))

\* h >> n
ShiftRight(h, n) ==
  <<ShiftedLimb(h, n, 1), ShiftedLimb(h, n, 2), ShiftedLimb(h, n, 3),
    ShiftedLimb(h, n, 4)>>

\* limb i of h & (2**bits - 1)
MaskedLimb(h, bits, i) ==
  IF WordBits * i <= bits THEN h[i]
  ELSE IF WordBits * (i - 1) >= bits THEN 0
  ELSE h[i] % (2 ^ (bits - WordBits * (i - 1)))

\* h & (2**bits - 1)
MaskLow(h, bits) ==
  <<MaskedLimb(h, bits, 1), MaskedLimb(h, bits, 2), MaskedLimb(h, bits, 3),
    MaskedLimb(h, bits, 4)>>

\* the products kept in uint16, where every pow(2, 16*k) * w wraps to 0
get_uint64_NoPromotion(row, start_idx) ==
  <<row[start_idx + 1], 0, 0, 0>>

\* get_uint64(side_info, start_idx) for one row of the reshaped array:
\* s[0] + pow(2,16)*s[1] + pow(2,32)*s[2] + pow(2,48)*s[3], summed from
\* the left; the first product is a uint32, the other two are uint64
get_uint64(row, start_idx) ==
  LET s0 == row[start_idx + 1]
      s1 == row[start_idx + 2]
      s2 == row[start_idx + 3]
      s3 == row[start_idx + 4]
  IN AddU(AddU(AddU(ScaleWord(s0, 0, 1), ScaleWord(s1, 1, 2), 2),
               ScaleWord(s2, 2, 4), 4),
          ScaleWord(s3, 3, 4), 4)

\* a row width counted in bytes instead of 16-bit words
num_int16_per_trans_Bytes(num_dma_symbol_per_trans) ==
  num_dma_symbol_per_trans * 8

\* num_int16_per_trans = num_dma_symbol_per_trans * 4
num_int16_per_trans(num_dma_symbol_per_trans) ==
  num_dma_symbol_per_trans * 4

\* ndarray.reshape([num_frames, per]) of a one-dimensional array: the rows
\* in order, or ValueError when num_frames * per is not the size
CanReshape(buffer, num_frames, per) == num_frames * per = Len(buffer)

Rows(buffer, num_frames, per) ==
  [r \in 1..num_frames |-> SubSeq(buffer, (r - 1) * per + 1, r * per)]

\* reshape_iq_side_info16(buffer, num_dma_symbol_per_trans): the ValueError
\* of reshape is caught and None returned
reshape_iq_side_info16(buffer, num_dma_symbol_per_trans) ==
  LET per == num_int16_per_trans(num_dma_symbol_per_trans)
      num_frames == Round(Len(buffer), per)
  IN IF CanReshape(buffer, num_frames, per)
     THEN [status |-> "ok", value |-> Rows(buffer, num_frames, per)]
     ELSE [status |-> "failure", value |-> <<>>]

\* parse_iq_side_info_header(buffer_uint16, num_dma_symbol_per_trans,
\*                           iq_len, data_type)
parse_iq_side_info_header(buffer_uint16, num_dma_symbol_per_trans, iq_len) ==
  LET reshaped == reshape_iq_side_info16(buffer_uint16,
                                         num_dma_symbol_per_trans)
      rows == reshaped.value
      iq_header(r) == get_uint64(rows[r], IQ_CAPTURE_LO_FREQ_IDX)
  IN IF reshaped.status # "ok"
     THEN [status |-> "failure", value |-> <<>>]
     ELSE [status |-> "ok",
           value |->
             [timestamp |->
                [r \in 1..Len(rows) |->
                   get_uint64(rows[r], IQ_CAPTURE_TIMESTAMP_IDX)],
              lo_freq |->
                [r \in 1..Len(rows) |->
                   MulU(MaskLow(ShiftRight(iq_header(r),
                                           IQ_CAPTURE_LO_FREQ_OFFSET),
                                LO_FREQ_BIT_WIDTH), 10)],
              capture_all_antenna |->
                [r \in 1..Len(rows) |->
                   MaskLow(ShiftRight(iq_header(r),
                                      IQ_CAPTURE_ALL_ANTENNA_OFFSET), 1)[1]],
              trigger_src |->
                [r \in 1..Len(rows) |->
                   MaskLow(ShiftRight(iq_header(r),
                                      IQ_CAPTURE_TRIGGER_SRC_OFFSET), 1)[1]],
              tx_start_len |-> IQ_CAPTURE_IQ_IDX \div 4 + iq_len + 1 + 1]]

\* ndarray.astype('int16') of a uint16 word: the same 16 bits, signed
ToInt16(w) == IF w >= WordBase \div 2 THEN w - WordBase ELSE w

\* reshape_csi_side_info16(side_info_uint16, num_eq): no handler around
\* reshape, its ValueError leaves the function
reshape_csi_side_info16(side_info_uint16, num_eq) ==
  LET per == (CSI_HEADER_LEN_DMA_SYM + CSI_LEN_DMA_SYM
              + num_eq * EQUALIZER_LEN_DMA_SYM) * 4
      num_frames == Round(Len(side_info_uint16), per)
  IN IF CanReshape(side_info_uint16, num_frames, per)
     THEN [status |-> "ok", value |-> Rows(side_info_uint16, num_frames, per)]
     ELSE [status |-> "raised", value |-> "ValueError"]

\* tmp_vec = tmp_vec_i + 1j*tmp_vec_q of one row: the slices
\* [4*CSI_HEADER_LEN_DMA_SYM : per - 1 : 4] and
\* [4*CSI_HEADER_LEN_DMA_SYM + 1 : per - 1 : 4] of the signed words, as
\* pairs <<I, Q>>
tmp_vec(row) ==
  LET start == 4 * CSI_HEADER_LEN_DMA_SYM
      stop == Len(row) - 1
      count == (stop - (start + 1) + 3) \div 4
  IN [k \in 1..count |->
        <<ToInt16(row[start + 4 * (k - 1) + 1]),
          ToInt16(row[start + 1 + 4 * (k - 1) + 1])>>]

\* csi[i, :CSI_LEN_HALF_DMA_SYM] = tmp_vec[CSI_LEN_HALF_DMA_SYM : CSI_LEN_DMA_SYM]
\* csi[i, CSI_LEN_HALF_DMA_SYM:] = tmp_vec[0 : CSI_LEN_HALF_DMA_SYM]
csi_of_row(row) ==
  LET t == tmp_vec(row)
  IN [j \in 1..CSI_LEN_DMA_SYM |->
        IF j <= CSI_LEN_HALF_DMA_SYM THEN t[CSI_LEN_HALF_DMA_SYM + j]
        ELSE t[j - CSI_LEN_HALF_DMA_SYM]]

\* parse_csi_side_info_header(side_info_uint16_reshaped, csi_timestamp_names).
\* `for i, name in csi_timestamp_names[1:]` unpacks each NAME into (i, name):
\* a string of other than two characters is a ValueError, and one of two
\* characters makes i a character, so that i + (TIMESTAMPS_EXTRA_IDX // 4)
\* is a TypeError.  The function returns only for a list of one name.
parse_csi_side_info_header(rows, csi_timestamp_names) ==
  IF Len(csi_timestamp_names) > 1
  THEN [status |-> "raised",
        value |-> IF Len(csi_timestamp_names[2]) = 2 THEN "TypeError"
                  ELSE "ValueError"]
  ELSE [status |-> "ok",
        value |->
          [timestamp_dict |->
             [name \in {csi_timestamp_names[1]} |->
                [r \in 1..Len(rows) |->
                   get_uint64(rows[r], CSI_CAPTURE_TIMESTAMP_IDX)]],
           lo_freq |->
             [r \in 1..Len(rows) |->
                MulU(MaskLow(ShiftRight(get_uint64(rows[r],
                                                   CSI_FREQ_OFFSET_EST_IDX),
                                        CSI_CAPTURE_LO_FREQ_OFFSET),
                             LO_FREQ_BIT_WIDTH), 10)]]]

\* parse_csi_side_info(side_info_uint16, num_eq, csi_timestamp_names): the
\* CSI vectors are built first, the header is parsed last
parse_csi_side_info(side_info_uint16, num_eq, csi_timestamp_names) ==
  LET reshaped == reshape_csi_side_info16(side_info_uint16, num_eq)
      rows == reshaped.value
      csi == [r \in 1..Len(rows) |-> csi_of_row(rows[r])]
      header == parse_csi_side_info_header(rows, csi_timestamp_names)
  IN IF reshaped.status # "ok" THEN reshaped
     ELSE IF header.status # "ok" THEN header
     ELSE [status |-> "ok",
           value |-> [csi |-> csi,
                      timestamp_dict |-> header.value.timestamp_dict,
                      lo_freq |-> header.value.lo_freq,
                      num_frames |-> Len(rows)]]

(***************************************************************************)
(* The decoder functions applied to buffers drawn from bounded sets        *)
(***************************************************************************)
\* buffers of 0..MaxWords words are reshaped for 1..MaxSymbolsPerTrans
\* DMA symbols per transaction
MaxWords == 17
MaxSymbolsPerTrans == 2

\* the words of a buffer told apart by their position
ReshapeInputs ==
  { [op |-> "reshape", buf |-> [i \in 1..n |-> i], spt |-> k, num_eq |-> 0] :
      n \in 0..MaxWords, k \in 1..MaxSymbolsPerTrans }

\* header words tried: the timestamp words, bits 0..31 of the metadata
\* word, its bits 32..47 (100000 is 1 * 2^16 + 34464) and its bits 48..63
\* (bit 13 of the word is bit 61, bit 14 is bit 62, bit 15 is bit 63)
TsWordValues == {0, 1, 65535}
MetaLowValues == {0, 65535}
MetaW2Values == {0, 34464, 65535}
MetaW3Values == {0, 1, 8191, 8193, 16384, 32768, 65535}

\* one IQ transaction: timestamp, metadata, reserved, IqLen payload symbols
IqTransaction(ts, meta) ==
  ts \o meta \o <<0, 0, 0, 0>> \o [i \in 1..(4 * IqLen) |-> i]

OtherIqTransaction == IqTransaction(<<65535, 0, 1, 65535>>, <<1, 0, 34464, 8193>>)

IqHeaderInputs ==
  { [op |-> "iq_header",
     buf |-> IF two THEN IqTransaction(ts, <<m0, m1, m2, m3>>) \o OtherIqTransaction
             ELSE IqTransaction(ts, <<m0, m1, m2, m3>>),
     spt |-> iq_num_dma_symbol_per_trans, num_eq |-> 0] :
      ts \in [1..4 -> TsWordValues], m0 \in MetaLowValues,
      m1 \in MetaLowValues, m2 \in MetaW2Values, m3 \in MetaW3Values,
      two \in BOOLEAN }
  \cup
  { [op |-> "iq_header",
     buf |-> SubSeq(OtherIqTransaction, 1, Len(OtherIqTransaction) - cut),
     spt |-> iq_num_dma_symbol_per_trans, num_eq |-> 0] : cut \in 1..4 }

\* the word at position p (from 0) of a stream of CSI transactions: the
\* first timestamp ts0, the LO field 25000000 (381 * 2^16 + 30784) above a
\* frequency offset, the symbol number as the other timestamps, and payload
\* sample k as I = base + k, Q = -(k + 1)
CsiWord(p, ts0, base) ==
  LET q == p % (csi_num_dma_symbol_per_trans * 4)
      sym == q \div 4
      lane == q % 4
      k == sym - CSI_HEADER_LEN_DMA_SYM
  IN IF sym = 0 THEN ts0[lane + 1]
     ELSE IF sym = 1 THEN <<7, 0, 30784, 381>>[lane + 1]
     ELSE IF sym < CSI_HEADER_LEN_DMA_SYM THEN (IF lane = 0 THEN sym ELSE 0)
     ELSE IF lane = 0 THEN (base + k) % WordBase
     ELSE IF lane = 1 THEN WordBase - 1 - k
     ELSE 0

CsiLengths ==
  LET per == csi_num_dma_symbol_per_trans * 4
  IN {0, 4, per \div 2, per - 4, per, per + 4, 2 * per}

CsiInputs ==
  { [op |-> "csi", buf |-> [i \in 1..n |-> CsiWord(i - 1, ts0, base)],
     spt |-> csi_num_dma_symbol_per_trans, num_eq |-> NumEq] :
      n \in CsiLengths,
      ts0 \in {<<1, 0, 0, 0>>, <<65535, 65535, 65535, 65535>>},
      base \in {0, 32760} }

\* the pipeline at rest while a decoder function is applied
pipe_vars == <<cfg_vars, shared_vars, rx_vars, co_vars, rx_hist, co_hist>>

DecInit ==
  /\ dec_pc = "ready"
  /\ dec_in \in ReshapeInputs \cup IqHeaderInputs \cup CsiInputs
  /\ dec_out = NoOutput
  /\ sampling_time = -1
  /\ has_down = FALSE
  /\ data_gen = "unread"
  /\ shutdown_event = FALSE
  /\ udp_fail_event = FALSE
  /\ udp_queue = <<>>
  /\ rx_pc = "construct"
  /\ timeout_count = 0
  /\ udp_data = NoData
  /\ sock = "unbound"
  /\ co_pc = "check"
  /\ frame_idx = 0
  /\ elapsed = 0
  /\ last_sample = "unset"
  /\ co_exc = FALSE
  /\ down_len = 0
  /\ stats_printed = FALSE
  /\ peer_stop = FALSE
  /\ n_recv = 0
  /\ n_popped = 0
  /\ consec_timeouts = 0
  /\ last_outcome = "none"
  /\ sd_recvs = 0
  /\ sd_pushes = 0
  /\ sd_pops = 0
  /\ sd_continues = 0
  /\ loop_exit = "none"

\* buffer_reshaped = reshape_iq_side_info16(buffer, num_dma_symbol_per_trans)
DecReshape ==
  /\ dec_pc = "ready"
  /\ dec_in.op = "reshape"
  /\ dec_out' = reshape_iq_side_info16(dec_in.buf, dec_in.spt)
  /\ dec_pc' = "done"
  /\ UNCHANGED <<dec_in, pipe_vars>>

\* process_and_save_iq: parse_iq_side_info_header(buffer_uint16,
\*   iq_num_dma_symbol_per_trans, params.iq_len, params.data_type)
DecIqHeader ==
  /\ dec_pc = "ready"
  /\ dec_in.op = "iq_header"
  /\ dec_out' = parse_iq_side_info_header(dec_in.buf, dec_in.spt, IqLen)
  /\ dec_pc' = "done"
  /\ UNCHANGED <<dec_in, pipe_vars>>

\* process_and_save_csi: parse_csi_side_info(buffer_uint16, params.num_eq,
\*   CSI_TIMESTAMP_NAMES)
DecCsi ==
  /\ dec_pc = "ready"
  /\ dec_in.op = "csi"
  /\ dec_out' = parse_csi_side_info(dec_in.buf, dec_in.num_eq,
                                    CSI_TIMESTAMP_NAMES)
  /\ dec_pc' = "done"
  /\ UNCHANGED <<dec_in, pipe_vars>>

DecNext ==
  \/ DecReshape
  \/ DecIqHeader
  \/ DecCsi

DecSpec == DecInit /\ [][DecNext]_vars

(***************************************************************************)
(* The chunk reader (owpy.capture.file_parser).  A file is the sequence of *)
(* its bytes.  A 32-bit value is kept as two 16-bit limbs and a 64-bit     *)
(* value as four, least significant first; struct's native byte order is   *)
(* taken as little-endian, the order of the machines the capture runs on.  *)
(***************************************************************************)
HEADER_SIZE == 4
SIZE_SIZE == 8
ByteBase == 256
\* 2^15: a 64-bit size whose top limb reaches it is 2^63 or more
SignLimb == 32768

\* HEADER = 0xDEADBEEF
HEADER == <<48879, 57005>>
\* the bytes struct.pack('I', HEADER) writes
HeaderBytes == <<239, 190, 173, 222>>

\* file.read(n) at position pos: the next n bytes, fewer at the end of the
\* file, none when nothing is left
file_read(file, pos, n) ==
  SubSeq(file, pos + 1, IF pos + n < Len(file) THEN pos + n ELSE Len(file))

\* a 4-byte word read with the most significant byte first
unpack_I_BigEndian(b) ==
  <<b[4] + ByteBase * b[3], b[2] + ByteBase * b[1]>>

\* struct.unpack('I', header_bytes)[0]
unpack_I(b) ==
  <<b[1] + ByteBase * b[2], b[3] + ByteBase * b[4]>>

\* struct.unpack('Q', size_bytes)[0]
unpack_Q(b) ==
  <<b[1] + ByteBase * b[2], b[3] + ByteBase * b[4],
    b[5] + ByteBase * b[6], b[7] + ByteBase * b[8]>>

\* data_size as a count of bytes to read from a file of the model, which is
\* shorter than 2^16 bytes: a size with a higher limb set asks for more
\* than the file holds
SizeToRead(data_size, file) ==
  IF data_size[2] = 0 /\ data_size[3] = 0 /\ data_size[4] = 0
  THEN data_size[1]
  ELSE Len(file)

\* len(data) != data_size
SizeMismatch(data, data_size) ==
  ~(data_size[2] = 0 /\ data_size[3] = 0 /\ data_size[4] = 0
    /\ data_size[1] = Len(data))

\* One pass of the `while True` of read_data_from_file, from position pos
\* with data_list read so far.  struct.unpack raises struct.error for a
\* buffer that is not of the size of its format; file.read(data_size)
\* raises OverflowError for a size of 2^63 or more (it does not fit the
\* index type of the interpreter).
read_iteration(file, pos, data_list) ==
  LET header_bytes == file_read(file, pos, HEADER_SIZE)
      size_bytes == file_read(file, pos + HEADER_SIZE, SIZE_SIZE)
      data_size == unpack_Q(size_bytes)
      data_pos == pos + HEADER_SIZE + SIZE_SIZE
      data == file_read(file, data_pos, SizeToRead(data_size, file))
  IN IF header_bytes = <<>>
     THEN [status |-> "ok", value |-> data_list, pos |-> pos]
     ELSE IF Len(header_bytes) # HEADER_SIZE
     THEN [status |-> "raised", value |-> "struct.error", pos |-> Len(file)]
     ELSE IF unpack_I(header_bytes) # HEADER
     THEN [status |-> "reading", value |-> data_list,
           pos |-> pos + HEADER_SIZE]
     ELSE IF size_bytes = <<>>
     THEN [status |-> "ok", value |-> data_list, pos |-> pos + HEADER_SIZE]
     ELSE IF Len(size_bytes) # SIZE_SIZE
     THEN [status |-> "raised", value |-> "struct.error", pos |-> Len(file)]
     ELSE IF data_size[4] >= SignLimb
     THEN [status |-> "raised", value |-> "OverflowError", pos |-> data_pos]
     ELSE IF SizeMismatch(data, data_size)
     THEN [status |-> "reading", value |-> data_list,
           pos |-> data_pos + Len(data)]
     ELSE [status |-> "reading", value |-> Append(data_list, data),
           pos |-> data_pos + Len(data)]

(***************************************************************************)
(* The chunk reader applied to files drawn from a bounded set: a file is   *)
(* up to MaxSegments segments, each a well-formed chunk, a run of non-magic*)
(* words, a run of bytes that is no whole word, a header or a length cut   *)
(* short, or a chunk whose payload is shorter than its declared length.    *)
(* Declared lengths are a few bytes, or 2^63: what a length between the    *)
(* two does depends on the memory of the machine, and is left out.         *)
(***************************************************************************)
MaxSegments == 3
MaxJunkBytes == 5

\* struct.pack('Q', n) for n < 256, and for 2^63
SizeBytes(n) == <<n, 0, 0, 0, 0, 0, 0, 0>>
HugeSizeBytes == <<0, 0, 0, 0, 0, 0, 0, 128>>

ChunkPayloads ==
  { <<>>, <<17>>, <<17, 18, 19, 20, 21>>, HeaderBytes }

ChunkSegments ==
  { [kind |-> "chunk", payload |-> p,
     bytes |-> HeaderBytes \o SizeBytes(Len(p)) \o p] : p \in ChunkPayloads }

\* non-magic words: one that shares three bytes with the magic, and the
\* magic written with the other byte order
JunkWordSegments ==
  { [kind |-> "junk_words", payload |-> <<>>, bytes |-> b] :
      b \in { <<1, 2, 3, 4>>, <<239, 190, 173, 0>>,
              <<1, 2, 3, 4, 222, 173, 190, 239>> } }

JunkByteSegments ==
  { [kind |-> "junk_bytes", payload |-> <<>>, bytes |-> [i \in 1..n |-> 7]] :
      n \in { k \in 1..MaxJunkBytes : k % HEADER_SIZE # 0 } }

CutHeaderSegments ==
  { [kind |-> "cut_header", payload |-> <<>>,
     bytes |-> SubSeq(HeaderBytes, 1, n)] : n \in 1..(HEADER_SIZE - 1) }

CutSizeSegments ==
  { [kind |-> "cut_size", payload |-> <<>>,
     bytes |-> HeaderBytes \o SubSeq(SizeBytes(2), 1, n)] :
      n \in {1, SIZE_SIZE - 1} }

ShortChunkSegments ==
  { [kind |-> "short_chunk", payload |-> <<>>,
     bytes |-> HeaderBytes \o s \o <<33, 34>>] :
      s \in { SizeBytes(5), HugeSizeBytes } }

Segments ==
  ChunkSegments \cup JunkWordSegments \cup JunkByteSegments
  \cup CutHeaderSegments \cup CutSizeSegments \cup ShortChunkSegments

RECURSIVE FileBytes(_)
FileBytes(segs) ==
  IF segs = <<>> THEN <<>> ELSE Head(segs).bytes \o FileBytes(Tail(segs))

FileInputs ==
  { [op |-> "read_data_from_file", buf |-> FileBytes(segs), spt |-> 0,
     num_eq |-> 0, segs |-> segs] :
      segs \in UNION { [1..n -> Segments] : n \in 0..MaxSegments } }

\* the pipeline at rest while a function is applied to an input
PipeAtRest ==
  /\ sampling_time = -1
  /\ has_down = FALSE
  /\ data_gen = "unread"
  /\ shutdown_event = FALSE
  /\ udp_fail_event = FALSE
  /\ udp_queue = <<>>
  /\ rx_pc = "construct"
  /\ timeout_count = 0
  /\ udp_data = NoData
  /\ sock = "unbound"
  /\ co_pc = "check"
  /\ frame_idx = 0
  /\ elapsed = 0
  /\ last_sample = "unset"
  /\ co_exc = FALSE
  /\ down_len = 0
  /\ stats_printed = FALSE
  /\ peer_stop = FALSE
  /\ n_recv = 0
  /\ n_popped = 0
  /\ consec_timeouts = 0
  /\ last_outcome = "none"
  /\ sd_recvs = 0
  /\ sd_pushes = 0
  /\ sd_pops = 0
  /\ sd_continues = 0
  /\ loop_exit = "none"

\* data_list = [] and the file opened at position 0
FileInit ==
  /\ dec_pc = "ready"
  /\ dec_in \in FileInputs
  /\ dec_out = [status |-> "reading", value |-> <<>>, pos |-> 0]
  /\ PipeAtRest

\* a pass of the loop that ends in `continue` or in the append
FileReadOn ==
  /\ dec_pc = "ready"
  /\ dec_in.op = "read_data_from_file"
  /\ LET r == read_iteration(dec_in.buf, dec_out.pos, dec_out.value)
     IN /\ r.status = "reading"
        /\ dec_out' = r
  /\ UNCHANGED <<dec_pc, dec_in, pipe_vars>>

\* a pass that ends in `break`: return data_list
FileReturn ==
  /\ dec_pc = "ready"
  /\ dec_in.op = "read_data_from_file"
  /\ LET r == read_iteration(dec_in.buf, dec_out.pos, dec_out.value)
     IN /\ r.status = "ok"
        /\ dec_out' = r
  /\ dec_pc' = "done"
  /\ UNCHANGED <<dec_in, pipe_vars>>

\* a pass in which struct.unpack or file.read raises: no handler, the
\* error leaves read_data_from_file
FileRaise ==
  /\ dec_pc = "ready"
  /\ dec_in.op = "read_data_from_file"
  /\ LET r == read_iteration(dec_in.buf, dec_out.pos, dec_out.value)
     IN /\ r.status = "raised"
        /\ dec_out' = r
  /\ dec_pc' = "done"
  /\ UNCHANGED <<dec_in, pipe_vars>>

FileNext ==
  \/ FileReadOn
  \/ FileReturn
  \/ FileRaise

FileSpec == FileInit /\ [][FileNext]_vars

(***************************************************************************)
(* The IQ payload decoders (parse_iq, parse_rssi_rx_iq0) as called by      *)
(* process_and_save_iq.  A complex sample is the pair <<I, Q>>; a stream   *)
(* is one sequence of samples per transaction.                             *)
(***************************************************************************)
\* the transaction size without the DMA symbol of the separator
get_num_dma_symbol_per_trans_NoSeparator(data_type, iq_len) ==
  IF data_type = "iq_all"
  THEN IQ_HEADER_LEN_DMA_SYM + iq_len + (iq_len \div 2)
  ELSE IQ_HEADER_LEN_DMA_SYM + iq_len

\* get_num_dma_symbol_per_trans(params): iq_num_dma_symbol_per_trans
get_num_dma_symbol_per_trans(data_type, iq_len) ==
  IF data_type = "iq_all"
  THEN IQ_HEADER_LEN_DMA_SYM + iq_len + (iq_len \div 2) + 1
  ELSE IQ_HEADER_LEN_DMA_SYM + iq_len

\* a column slice that starts one DMA symbol early
lane_slice_FromHeader(row, start, step) ==
  LET first == start - 4
      count == IF first >= Len(row) THEN 0
               ELSE (Len(row) - first + step - 1) \div step
  IN [k \in 1..count |-> ToInt16(row[first + step * (k - 1) + 1])]

\* buffer_reshaped[r, start::step] of the buffer cast to int16: the words at
\* positions start, start + step, ... (from 0) of the row, signed
lane_slice(row, start, step) ==
  LET count == IF start >= Len(row) THEN 0
               ELSE (Len(row) - start + step - 1) \div step
  IN [k \in 1..count |-> ToInt16(row[start + step * (k - 1) + 1])]

\* a + 1j*b of two slices of one length
complex_of(re, im) == [k \in 1..Len(re) |-> <<re[k], im[k]>>]

\* x[:, :n]
trim(x, n) == SubSeq(x, 1, IF n < Len(x) THEN n ELSE Len(x))

\* x.reshape([-1, n]) of an array of Len(m) rows of cols columns: the
\* elements in row-major order cut into rows of n.  ValueError when the
\* size is no multiple of n.
ReshapeCols(m, cols, n) ==
  LET size == Len(m) * cols
      at(i) == m[((i - 1) \div cols) + 1][((i - 1) % cols) + 1]
  IN [r \in 1..(size \div n) |-> [c \in 1..n |-> at((r - 1) * n + c)]]

\* parse_iq(data_type, buffer_uint16, num_dma_symbol_per_trans, iq_len,
\*          tx_start_len), with tx_start_len given.  The comparison of the
\* TX length with 2*(iq_len//2)-2 prints a warning and changes nothing.
parse_iq(data_type, buffer_uint16, num_dma_symbol_per_trans, iq_len, tx_start_len) ==
  LET reshaped == reshape_iq_side_info16(buffer_uint16,
                                         num_dma_symbol_per_trans)
      rows == reshaped.value
      iq0_all(r) == complex_of(lane_slice(rows[r], IQ_CAPTURE_IQ_IDX + 0, 4),
                               lane_slice(rows[r], IQ_CAPTURE_IQ_IDX + 1, 4))
      iq1_all(r) == complex_of(lane_slice(rows[r], IQ_CAPTURE_IQ_IDX + 2, 4),
                               lane_slice(rows[r], IQ_CAPTURE_IQ_IDX + 3, 4))
      iq0_capture == [r \in 1..Len(rows) |->
                        IF data_type = "iq_all" THEN trim(iq0_all(r), iq_len)
                        ELSE iq0_all(r)]
      iq1_capture == [r \in 1..Len(rows) |->
                        IF data_type = "iq_all" THEN trim(iq1_all(r), iq_len)
                        ELSE iq1_all(r)]
      iq_tx_capture == [r \in 1..Len(rows) |->
                          complex_of(lane_slice(rows[r], 4 * tx_start_len, 2),
                                     lane_slice(rows[r], 4 * tx_start_len + 1,
                                                2))]
  IN IF reshaped.status # "ok"
     THEN [status |-> "failure", value |-> <<>>]
     ELSE IF data_type = "rx_iq0_iq1"
     THEN [status |-> "ok",
           value |-> [rx0 |-> iq0_capture, rx1 |-> iq1_capture,
                      nrx |-> 2, nbb |-> 0]]
     ELSE IF data_type = "tx_rx_iq0"
     THEN [status |-> "ok",
           value |-> [rx0 |-> iq0_capture, bb0 |-> iq1_capture,
                      nrx |-> 1, nbb |-> 1]]
     ELSE [status |-> "ok",
           value |-> [rx0 |-> iq0_capture, rx1 |-> iq1_capture,
                      bb0 |-> iq_tx_capture, nrx |-> 2, nbb |-> 1]]

\* parse_rssi_rx_iq0(buffer_uint16, num_dma_symbol_per_trans, iq_len)
parse_rssi_rx_iq0(buffer_uint16, num_dma_symbol_per_trans, iq_len) ==
  LET reshaped == reshape_iq_side_info16(buffer_uint16,
                                         num_dma_symbol_per_trans)
      rows == reshaped.value
      cols == num_dma_symbol_per_trans - IQ_CAPTURE_IQ_IDX \div 4
      iq_capture == [r \in 1..Len(rows) |->
                       complex_of(lane_slice(rows[r], IQ_CAPTURE_IQ_IDX + 0, 4),
                                  lane_slice(rows[r], IQ_CAPTURE_IQ_IDX + 1, 4))]
      agc_gain == [r \in 1..Len(rows) |->
                     lane_slice(rows[r], IQ_CAPTURE_IQ_IDX + 2, 4)]
      rssi_half_db == [r \in 1..Len(rows) |->
                         lane_slice(rows[r], IQ_CAPTURE_IQ_IDX + 3, 4)]
  IN IF reshaped.status # "ok"
     THEN [status |-> "failure", value |-> <<>>]
     ELSE IF (Len(rows) * cols) % iq_len # 0
     THEN [status |-> "raised", value |-> "ValueError"]
     ELSE [status |-> "ok",
           value |-> [rx0 |-> ReshapeCols(iq_capture, cols, iq_len),
                      agc_gain |-> ReshapeCols(agc_gain, cols, iq_len),
                      rssi_half_db |->
                        ReshapeCols(rssi_half_db, cols, iq_len)]]

\* process_and_save_iq without the saving: the header is parsed first and
\* gives tx_start_len; `return 0, None` when it or the payload decoder
\* returns None
process_and_save_iq(data_type, buffer_uint16, iq_num_dma_symbol, iq_len) ==
  LET header == parse_iq_side_info_header(buffer_uint16, iq_num_dma_symbol,
                                          iq_len)
  IN IF header.status # "ok"
     THEN [status |-> "failure", value |-> <<>>]
     ELSE IF data_type \in {"rx_iq0_iq1", "tx_rx_iq0", "iq_all"}
     THEN parse_iq(data_type, buffer_uint16, iq_num_dma_symbol, iq_len,
                   header.value.tx_start_len)
     ELSE IF data_type = "rssi_rx_iq0"
     THEN parse_rssi_rx_iq0(buffer_uint16, iq_num_dma_symbol, iq_len)
     ELSE [status |-> "raised", value |-> "ValueError"]

(***************************************************************************)
(* The IQ decoders applied to buffers drawn from a bounded set: 1 to       *)
(* MaxTransactions transactions of the configured data type and iq_len     *)
(* 1..MaxIqLen, whole or with words cut off the end.  A word is told by    *)
(* its position, on the positive or on the negative side of int16.         *)
(***************************************************************************)
MaxIqLen == 4
MaxTransactions == 2

IqDataTypes == {"rx_iq0_iq1", "tx_rx_iq0", "iq_all", "rssi_rx_iq0"}

\* the word at position i (from 1): i, or -i as a uint16
IqWord(i, negative) == IF negative THEN WordBase - i ELSE i

IqPayloadInputs ==
  { [op |-> "process_and_save_iq",
     buf |-> [i \in 1..(4 * get_num_dma_symbol_per_trans(dt, n) * t - cut)
                |-> IqWord(i, neg)],
     spt |-> get_num_dma_symbol_per_trans(dt, n), num_eq |-> 0,
     data_type |-> dt, iq_len |-> n] :
      dt \in IqDataTypes, n \in 1..MaxIqLen, t \in 1..MaxTransactions,
      cut \in {0, 1}, neg \in BOOLEAN }

IqInit ==
  /\ dec_pc = "ready"
  /\ dec_in \in IqPayloadInputs
  /\ dec_out = NoOutput
  /\ PipeAtRest

\* n_frames, data_dict = process_and_save_iq(queue_data, fd_dict,
\*   iq_num_dma_symbol_per_trans, params, logger)
IqProcess ==
  /\ dec_pc = "ready"
  /\ dec_in.op = "process_and_save_iq"
  /\ dec_out' = process_and_save_iq(dec_in.data_type, dec_in.buf, dec_in.spt,
                                    dec_in.iq_len)
  /\ dec_pc' = "done"
  /\ UNCHANGED <<dec_in, pipe_vars>>

IqNext == IqProcess

IqSpec == IqInit /\ [][IqNext]_vars

(***************************************************************************)
(* Properties                                                              *)
(***************************************************************************)
RxLeftLoop == rx_pc \in {"finally", "done"}
RxEnded == rx_pc \in {"done", "crashed"}

\* C1: with threshold 10, once receive has returned Timeout on 11
\* consecutive calls, the Receive Loop is on its way out (it sets the fault
\* signal, then the shutdown signal, then leaves): both signals are set once
\* it has left the loop, and it is never again at the loop head or at a
\* receive call, so there is no 12th call.
C1_EscalatesOn11thTimeout ==
  consec_timeouts >= max_timeout_count + 1 =>
    /\ consec_timeouts = max_timeout_count + 1
    /\ rx_pc \in {"set_fail", "set_shutdown", "finally", "done"}
    /\ (RxLeftLoop => udp_fail_event /\ shutdown_event)

C1_Witness ==
  /\ consec_timeouts = max_timeout_count + 1
  /\ rx_pc = "done"
  /\ udp_fail_event
  /\ shutdown_event

\* C2 as stated: in every reachable state, the fault signal being set
\* implies the shutdown signal is set.
C2_FaultImpliesShutdownAlways == udp_fail_event => shutdown_event

\* C2 amended: the fault signal being set implies the shutdown signal is
\* set in every state but those where the Receive Loop stands between its
\* udp_fail_event.set() and its shutdown_event.set().
C2_FaultImpliesShutdownOutsideWindow ==
  (udp_fail_event /\ rx_pc # "set_shutdown") => shutdown_event

C2_Witness == udp_fail_event /\ shutdown_event /\ rx_pc = "done"

\* C3: with one payload queued and not yet popped, a push by the Receive
\* Loop enqueues nothing and ends the loop (the queue holds at most one).
C3_SecondPushIsBackpressure ==
  [][(rx_pc = "put" /\ rx_pc' # "put" /\ Len(udp_queue) >= 1)
       => (udp_queue' = udp_queue /\ rx_pc' = "finally")]_vars

\* C4 as stated: with the shutdown signal set, the coordinator pops no
\* payload and its check never lets the loop go on; the Receive Loop makes
\* at most one receive call and at most one push.
C4_NoFurtherPayload ==
  /\ sd_pops = 0
  /\ sd_continues = 0
  /\ sd_recvs <= 1
  /\ sd_pushes <= 1

\* C4 amended: with the shutdown signal set, the coordinator's check never
\* lets the loop go on and the coordinator pops at most one payload (that
\* of an iteration already past its check); the Receive Loop makes at most
\* one receive call and at most one push, and at its loop head it leaves.
C4_AtMostOneFurtherPayload ==
  /\ sd_pops <= 1
  /\ sd_continues = 0
  /\ sd_recvs <= 1
  /\ sd_pushes <= 1

C4_Witness ==
  /\ shutdown_event
  /\ sd_pops = 1
  /\ sd_recvs = 1
  /\ sd_pushes = 1
  /\ rx_pc = "done"
  /\ co_pc \notin LoopPcs

\* C5: once the Receive Loop has ended, for whatever reason, the
\* coordinator's loop eventually ends too.
C5_CoordinatorLoopEnds == RxEnded ~> (co_pc \notin LoopPcs)

\* C6: after a failed bind, or after receive returned Fault, the fault
\* signal is set when the Receive Loop has ended.
C6_TransportFaultSetsFault ==
  (rx_pc = "crashed" \/ (rx_pc = "done" /\ last_outcome = "exception"))
    => udp_fail_event

\* C7: once receive has returned Interrupted or Fault, the Receive Loop only
\* sets the shutdown signal and leaves: it is never again at the loop head,
\* at a receive call or at a push, it holds no payload, and the shutdown
\* signal is set once it has left the loop.
C7_SentinelEndsLoop ==
  last_outcome \in {"keyboard_interrupt", "exception"} =>
    /\ rx_pc \in {"set_shutdown", "finally", "done"}
    /\ udp_data = NoData
    /\ (RxLeftLoop => shutdown_event)

C7_Witness ==
  /\ last_outcome = "exception"
  /\ rx_pc = "done"
  /\ shutdown_event
  /\ ~udp_fail_event

\* C8: whichever way the Receive Loop was left, the socket is closed when
\* the worker ends.
C8_SocketClosedAtEnd == rx_pc = "done" => sock = "closed"

\* the loop left on a failed push, no signal set
C8_Witness ==
  /\ rx_pc = "done"
  /\ sock = "closed"
  /\ last_outcome = "data"
  /\ ~shutdown_event

\* C9: the Receive Loop sets the fault signal only when its last 11 receive
\* outcomes were all Timeout, and the counter never exceeds threshold + 1.
C9_FaultOnlyAfter11Timeouts ==
  /\ timeout_count <= max_timeout_count + 1
  /\ (rx_pc = "set_fail" \/ udp_fail_event)
       => consec_timeouts >= max_timeout_count + 1

\* the length of p is no multiple of the per-transaction size of its type
LengthMismatch(p) ==
  /\ p.len >= 1
  /\ p.len % (IF p.typ = DATA_TYPE_IQ THEN iq_bytes_per_trans
              ELSE csi_bytes_per_trans) # 0

\* C10: a popped payload of at least 1 byte whose length is no multiple of
\* the per-transaction size is skipped: the frame total and the start time
\* stay, nothing is forwarded, no error is raised, the loop goes on.
C10_MismatchSkipped ==
  [][(n_popped' # n_popped /\ LengthMismatch(Head(udp_queue)))
       => /\ co_pc' = "check"
          /\ ~co_exc'
          /\ frame_idx' = frame_idx
          /\ elapsed' = elapsed
          /\ last_sample' = last_sample
          /\ down_len' = down_len]_vars

\* a step in which the loop condition is evaluated: the coordinator leaves
\* its check other than by a KeyboardInterrupt
LoopChecked == co_pc = "check" /\ co_pc' # "check" /\ loop_exit' # "interrupt"

\* C11 as stated: when a sampling duration other than -1 has elapsed since
\* the recorded start, the loop ends at its next check, frames or no frames.
C11_DurationEndsLoop ==
  [][(LoopChecked /\ sampling_time # -1 /\ elapsed' >= sampling_time)
       => co_pc' = "cleanup"]_vars

\* C11 amended: when a sampling duration other than -1 has elapsed since the
\* recorded start, the loop ends at its next check if a frame has been
\* received or the 60 s grace period has elapsed as well; with no frame and
\* the grace period running, the check lets the loop go on unless the
\* shutdown signal is set.
C11_DurationEndsLoopAfterFirstFrameOrGrace ==
  [][(LoopChecked /\ sampling_time # -1 /\ elapsed' >= sampling_time)
       => IF frame_idx > 0 \/ elapsed' >= max_wait_time \/ shutdown_event
          THEN co_pc' = "cleanup"
          ELSE co_pc' = "poll"]_vars

\* the loop was ended by its check, on the duration, after a frame
C11_Witness ==
  /\ loop_exit = "condition"
  /\ co_pc = "cleanup"
  /\ ~shutdown_event
  /\ frame_idx > 0
  /\ sampling_time = ShortSampling
  /\ elapsed >= sampling_time

\* C12: with no frame received and the grace period (60 s) elapsed since
\* start, the loop ends at its next check, whatever the sampling duration.
C12_GraceEndsLoop ==
  [][(LoopChecked /\ frame_idx = 0 /\ elapsed' >= max_wait_time)
       => co_pc' = "cleanup"]_vars

\* C13: when the coordinator has ended after its loop was ended by the loop
\* condition or by a full downstream queue, whatever the number of payloads
\* decoded, the summary was printed, and the stop command was sent if
\* configured.
C13_SummaryThenStop ==
  (co_pc \in {"done", "crashed"} /\ loop_exit \in {"condition", "down_full"})
    => /\ stats_printed
       /\ co_pc = "done"
       /\ (data_gen = "yes" => peer_stop)

\* C14: a forward to a full downstream queue ends the loop with no error
\* pending: the coordinator goes on to its exit path.
C14_DownstreamFullEndsLoopNormally ==
  loop_exit = "down_full"
    => /\ ~co_exc
       /\ co_pc \in {"cleanup", "join", "summary", "stop_peer", "done"}

\* C15: the queue holds, in order of arrival, the payloads that follow the
\* popped ones: the k-th pop takes the k-th non-empty payload received, the
\* payloads popped and queued are among those received, and every queued
\* item is a payload of at least one byte (never a sentinel outcome).
C15_PoppedIsPrefixOfReceived ==
  /\ n_popped + Len(udp_queue) <= n_recv
  /\ \A i \in 1..Len(udp_queue) :
       /\ udp_queue[i].id = n_popped + i
       /\ udp_queue[i].len >= 1

\* two payloads were received, queued together and popped
C15_Witness ==
  /\ n_recv >= 2
  /\ n_popped = n_recv
  /\ udp_queue = <<>>
  /\ sd_pops = 0

\* the four words of DMA symbol sym (from 0) of transaction r (from 1) of a
\* buffer of transactions of per words
SymbolWords(buf, per, r, sym) ==
  LET o == (r - 1) * per + 4 * sym
  IN <<buf[o + 1], buf[o + 2], buf[o + 3], buf[o + 4]>>

\* F is 10 times the 29-bit field at bits 32..60 of a DMA symbol whose words
\* 2 and 3 are w2 and w3: the field is w2 + 2^16 * (w3 mod 2^13)
IsTenTimesField(F, w2, w3) ==
  /\ F[1] = (10 * w2) % WordBase
  /\ F[2] + WordBase * F[3] = 10 * (w3 % 8192) + (10 * w2) \div WordBase
  /\ F[4] = 0

\* C16: reshape_iq_side_info16 returns the failure value, and never raises,
\* exactly when the number of words is no multiple of symbols_per_trans * 4;
\* otherwise it returns len / (symbols_per_trans * 4) rows, row r holding
\* the consecutive words of transaction r, none dropped or duplicated.
C16_ReshapeFailsExactlyOnRemainder ==
  (dec_pc = "done" /\ dec_in.op = "reshape") =>
    LET per == dec_in.spt * 4
        n == Len(dec_in.buf)
    IN /\ dec_out.status \in {"ok", "failure"}
       /\ (dec_out.status = "failure") <=> (n % per # 0)
       /\ (dec_out.status = "ok") =>
            /\ Len(dec_out.value) = n \div per
            /\ \A r \in 1..Len(dec_out.value) :
                 /\ Len(dec_out.value[r]) = per
                 /\ \A c \in 1..per :
                      dec_out.value[r][c] = dec_in.buf[(r - 1) * per + c]

\* a buffer of two transactions reshaped to two rows
C16_Witness ==
  /\ dec_pc = "done"
  /\ dec_in.op = "reshape"
  /\ dec_out.status = "ok"
  /\ Len(dec_out.value) = 2
  /\ dec_out.value[2][1] = dec_in.spt * 4 + 1

\* C17: parse_csi_side_info on a buffer whose length is no multiple of the
\* CSI transaction size returns an error result: it does not raise and
\* returns no frames.
C17_CsiBadLengthIsErrorResult ==
  (/\ dec_pc = "done"
   /\ dec_in.op = "csi"
   /\ Len(dec_in.buf) % (csi_num_dma_symbol_per_trans * 4) # 0)
    => dec_out.status = "failure"

\* a buffer of at least one whole CSI transaction and nothing more
ValidCsiInput ==
  /\ dec_pc = "done"
  /\ dec_in.op = "csi"
  /\ Len(dec_in.buf) > 0
  /\ Len(dec_in.buf) % (csi_num_dma_symbol_per_trans * 4) = 0

\* C18: parse_csi_side_info on a valid buffer returns, for each frame, the
\* seven named timestamps (the first from DMA symbol 0, the others from DMA
\* symbols 2..7, word0 + word1*2^16 + word2*2^32 + word3*2^48) and the LO
\* frequency 10 * (bits 32..60 of DMA symbol 1); timestamp words (1,0,0,0)
\* give timestamp 1 and the LO field 25000000 gives 250000000
\* (45696 + 3814 * 2^16).
C18_CsiHeaderDecoded ==
  ValidCsiInput =>
    LET per == csi_num_dma_symbol_per_trans * 4
        names == CSI_TIMESTAMP_NAMES
    IN /\ dec_out.status = "ok"
       /\ DOMAIN dec_out.value.timestamp_dict
            = {names[k] : k \in 1..Len(names)}
       /\ \A r \in 1..(Len(dec_in.buf) \div per) :
            /\ \A k \in 1..Len(names) :
                 dec_out.value.timestamp_dict[names[k]][r]
                   = SymbolWords(dec_in.buf, per, r,
                                 IF k = 1 THEN 0 ELSE k)
            /\ IsTenTimesField(dec_out.value.lo_freq[r],
                               SymbolWords(dec_in.buf, per, r, 1)[3],
                               SymbolWords(dec_in.buf, per, r, 1)[4])
            /\ (SymbolWords(dec_in.buf, per, r, 0) = <<1, 0, 0, 0>>
                  => dec_out.value.lo_freq[r] = <<45696, 3814, 0, 0>>)

\* payload sample k (from 0) of transaction r of a CSI buffer: lanes 0 and 1
\* of its DMA symbol read as signed 16-bit
CsiSample(buf, per, r, k) ==
  LET w == SymbolWords(buf, per, r, CSI_HEADER_LEN_DMA_SYM + k)
  IN <<ToInt16(w[1]), ToInt16(w[2])>>

\* C19: in the CSI vector decoded for each frame, output index j below 26
\* holds input sample 26 + j and output index j from 26 on holds input
\* sample j - 26, each sample (I, Q) read as signed 16-bit.
C19_CsiHalvesSwapped ==
  ValidCsiInput =>
    LET per == csi_num_dma_symbol_per_trans * 4
    IN /\ dec_out.status = "ok"
       /\ \A r \in 1..(Len(dec_in.buf) \div per) :
            \A j \in 0..(CSI_LEN_DMA_SYM - 1) :
              dec_out.value.csi[r][j + 1]
                = CsiSample(dec_in.buf, per, r,
                            IF j < 26 THEN 26 + j ELSE j - 26)

\* C20: for every transaction of a buffer of whole IQ transactions the
\* decoder returns timestamp = word0 + word1*2^16 + word2*2^32 + word3*2^48
\* of DMA symbol 0, lo_freq = 10 * (bits 32..60 of DMA symbol 1),
\* capture_all_antenna = bit 61 and trigger_src = bit 62 of DMA symbol 1:
\* bits 0..31 and bit 63 change nothing, and the timestamp and the
\* frequency that were encoded are read back.
C20_IqHeaderFields ==
  (/\ dec_pc = "done"
   /\ dec_in.op = "iq_header"
   /\ Len(dec_in.buf) % (dec_in.spt * 4) = 0)
    => LET per == dec_in.spt * 4
       IN /\ dec_out.status = "ok"
          /\ Len(dec_out.value.timestamp) = Len(dec_in.buf) \div per
          /\ \A r \in 1..(Len(dec_in.buf) \div per) :
               LET ts == SymbolWords(dec_in.buf, per, r, 0)
                   meta == SymbolWords(dec_in.buf, per, r, 1)
               IN /\ dec_out.value.timestamp[r] = ts
                  /\ IsTenTimesField(dec_out.value.lo_freq[r],
                                     meta[3], meta[4])
                  /\ dec_out.value.capture_all_antenna[r]
                       = (meta[4] \div 8192) % 2
                  /\ dec_out.value.trigger_src[r]
                       = (meta[4] \div 16384) % 2

\* two transactions; the first has bits 0..31 all set, bit 61 set, the
\* field 100000 and a timestamp of 2^64 - 1: lo_freq is 1000000
\* (16960 + 15 * 2^16) and capture_all_antenna 1
C20_Witness ==
  /\ dec_pc = "done"
  /\ dec_in.op = "iq_header"
  /\ dec_out.status = "ok"
  /\ Len(dec_out.value.timestamp) = 2
  /\ dec_in.buf[5] = 65535
  /\ dec_in.buf[6] = 65535
  /\ dec_out.value.timestamp[1] = <<65535, 65535, 65535, 65535>>
  /\ dec_out.value.lo_freq[1] = <<16960, 15, 0, 0>>
  /\ dec_out.value.capture_all_antenna[1] = 1
  /\ dec_out.value.trigger_src[1] = 0
\* the payloads of the well-formed chunks of a file, in file order
RECURSIVE PayloadsOf(_)
PayloadsOf(segs) ==
  IF segs = <<>> THEN <<>>
  ELSE IF Head(segs).kind = "chunk"
  THEN <<Head(segs).payload>> \o PayloadsOf(Tail(segs))
  ELSE PayloadsOf(Tail(segs))

\* a file of chunks with segments of the kinds given only between chunks
ChunksWithBetween(segs, kinds) ==
  /\ \A i \in 1..Len(segs) : segs[i].kind \in {"chunk"} \cup kinds
  /\ segs # <<>> =>
       Head(segs).kind = "chunk" /\ segs[Len(segs)].kind = "chunk"

FileReadDone == dec_pc = "done" /\ dec_in.op = "read_data_from_file"

\* C21: for a file of well-formed chunks with non-magic 4-byte words between
\* them, read_data_from_file returns exactly the payloads of the chunks, in
\* file order (chunk, one corrupted word, chunk gives 2 payloads).
C21_ReaderReturnsChunkPayloads ==
  (FileReadDone /\ ChunksWithBetween(dec_in.segs, {"junk_words"})) =>
    /\ dec_out.status = "ok"
    /\ dec_out.value = PayloadsOf(dec_in.segs)

\* chunk, 4 corrupted bytes, chunk was read: 2 payloads came back
C21_Witness ==
  /\ FileReadDone
  /\ Len(dec_in.segs) = 3
  /\ dec_in.segs[1].kind = "chunk"
  /\ dec_in.segs[2].kind = "junk_words"
  /\ Len(dec_in.segs[2].bytes) = HEADER_SIZE
  /\ dec_in.segs[3].kind = "chunk"
  /\ dec_in.segs[1].payload # dec_in.segs[3].payload
  /\ dec_out.status = "ok"
  /\ Len(dec_out.value) = 2

\* C22: for a corrupted region of any byte length between well-formed
\* chunks (whole words or not), the reader does not abort and returns every
\* well-formed chunk after the region.
C22_ResynchronizesAfterAnyRegion ==
  (FileReadDone
   /\ ChunksWithBetween(dec_in.segs, {"junk_words", "junk_bytes"})) =>
    /\ dec_out.status = "ok"
    /\ \A i \in 1..Len(dec_in.segs) :
         dec_in.segs[i].kind = "chunk" =>
           \E j \in 1..Len(dec_out.value) :
             dec_out.value[j] = dec_in.segs[i].payload

\* C23: when fewer bytes than the declared length remain after a length
\* field, the reader raises nothing, leaves that chunk out and returns the
\* chunks read before it.
C23_ShortChunkDiscarded ==
  (/\ FileReadDone
   /\ dec_in.segs # <<>>
   /\ dec_in.segs[Len(dec_in.segs)].kind = "short_chunk"
   /\ \A i \in 1..(Len(dec_in.segs) - 1) : dec_in.segs[i].kind = "chunk") =>
    /\ dec_out.status = "ok"
    /\ dec_out.value = PayloadsOf(dec_in.segs)

\* C27: for every file content the reader ends by returning a list of
\* payloads, never by raising.
C27_ReaderNeverRaises ==
  FileReadDone => dec_out.status = "ok"

\* a payload the coordinator does not reject: it has a byte 15 and its
\* length is a multiple of the per-transaction byte count of its type
Accepted(p) ==
  /\ ~GetDataTypeRaises(p)
  /\ ~is_abnormal_length(p.len, get_data_type(p), iq_bytes_per_trans,
                         csi_bytes_per_trans)

BytesPerTrans(p) ==
  IF get_data_type(p) = DATA_TYPE_IQ THEN iq_bytes_per_trans
  ELSE csi_bytes_per_trans

\* C24: the running frame total never decreases, changes only when a payload
\* is popped, and then grows by len(payload) / (per-transaction byte count
\* of its type) if the payload is accepted and by 0 if it is rejected; so it
\* is the sum of these quotients over the accepted payloads.
C24_FrameTotalIsSumOverAccepted ==
  [][/\ frame_idx' >= frame_idx
     /\ IF n_popped' # n_popped
        THEN frame_idx' = frame_idx
               + (IF Accepted(Head(udp_queue))
                  THEN Head(udp_queue).len \div BytesPerTrans(Head(udp_queue))
                  ELSE 0)
        ELSE frame_idx' = frame_idx]_vars

\* lane l (0..3) of payload DMA symbol k (from 0) of transaction r of the
\* buffer given to the IQ decoder, read as signed 16-bit two's complement
IqLane(r, k, l) ==
  LET w == dec_in.buf[(r - 1) * 4 * dec_in.spt
                      + 4 * (IQ_HEADER_LEN_DMA_SYM + k) + l + 1]
  IN IF w >= 32768 THEN w - 65536 ELSE w

IqDecoded(types) ==
  /\ dec_pc = "done"
  /\ dec_in.op = "process_and_save_iq"
  /\ dec_in.data_type \in types
  /\ Len(dec_in.buf) % (4 * dec_in.spt) = 0

\* C25: for rx_iq0_iq1, tx_rx_iq0 and rssi_rx_iq0 every stream has, per
\* transaction, exactly iq_len entries, entry k built from the signed lanes
\* of payload DMA symbol k: rx0 = lane0 + j*lane1; rx1 (rx_iq0_iq1) or bb0
\* (tx_rx_iq0) = lane2 + j*lane3; agc_gain = lane2 and rssi_half_db = lane3
\* (rssi_rx_iq0).  No header word is in a stream.
C25_IqLaneMapping ==
  IqDecoded({"rx_iq0_iq1", "tx_rx_iq0", "rssi_rx_iq0"}) =>
    LET n == dec_in.iq_len
        T == Len(dec_in.buf) \div (4 * dec_in.spt)
        v == dec_out.value
        pair(a, b) == [r \in 1..T |-> [k \in 1..n |->
                         <<IqLane(r, k - 1, a), IqLane(r, k - 1, b)>>]]
        single(a) == [r \in 1..T |-> [k \in 1..n |-> IqLane(r, k - 1, a)]]
    IN /\ dec_out.status = "ok"
       /\ v.rx0 = pair(0, 1)
       /\ dec_in.data_type = "rx_iq0_iq1" =>
            DOMAIN v = {"rx0", "rx1", "nrx", "nbb"} /\ v.rx1 = pair(2, 3)
       /\ dec_in.data_type = "tx_rx_iq0" =>
            DOMAIN v = {"rx0", "bb0", "nrx", "nbb"} /\ v.bb0 = pair(2, 3)
       /\ dec_in.data_type = "rssi_rx_iq0" =>
            /\ DOMAIN v = {"rx0", "agc_gain", "rssi_half_db"}
            /\ v.agc_gain = single(2)
            /\ v.rssi_half_db = single(3)

\* two transactions of negative words, iq_len 2 or more, were decoded
C25_Witness ==
  /\ IqDecoded({"rx_iq0_iq1", "tx_rx_iq0", "rssi_rx_iq0"})
  /\ dec_in.iq_len >= 2
  /\ dec_out.status = "ok"
  /\ Len(dec_out.value.rx0) = 2
  /\ dec_out.value.rx0[2][2][1] < 0

\* C26: for iq_all with iq_len >= 2, with the transaction size of
\* get_num_dma_symbol_per_trans and the TX offset of the header parse, rx0
\* and rx1 have exactly iq_len samples per transaction, taken from the DMA
\* symbols before the separator, and bb0 has exactly 2*(iq_len // 2) - 2,
\* each taken from a DMA symbol after the separator.  The frame is returned
\* also when the TX length differs from that (iq_len = 1: none against -2).
C26_IqAllStreams ==
  IqDecoded({"iq_all"}) =>
    LET n == dec_in.iq_len
        T == Len(dec_in.buf) \div (4 * dec_in.spt)
        v == dec_out.value
        sep == IQ_HEADER_LEN_DMA_SYM + n
        \* the words (from 0) of a transaction after the separator
        after == (4 * (sep + 1))..(4 * dec_in.spt - 1)
        Word(r, o) ==
          LET w == dec_in.buf[(r - 1) * 4 * dec_in.spt + o + 1]
          IN IF w >= 32768 THEN w - 65536 ELSE w
    IN /\ dec_out.status = "ok"
       /\ Len(v.rx0) = T /\ Len(v.rx1) = T /\ Len(v.bb0) = T
       /\ \A r \in 1..(IF n >= 2 THEN T ELSE 0) :
            /\ Len(v.rx0[r]) = n
            /\ Len(v.rx1[r]) = n
            /\ \A k \in 1..n :
                 /\ v.rx0[r][k] = <<IqLane(r, k - 1, 0), IqLane(r, k - 1, 1)>>
                 /\ v.rx1[r][k] = <<IqLane(r, k - 1, 2), IqLane(r, k - 1, 3)>>
            /\ Len(v.bb0[r]) = 2 * (n \div 2) - 2
            /\ \A j \in 1..Len(v.bb0[r]) :
                 \E o \in after :
                   /\ o % 2 = 0
                   /\ v.bb0[r][j] = <<Word(r, o), Word(r, o + 1)>>

\* iq_all with iq_len 4 was decoded: 2 TX samples per transaction
C26_Witness ==
  /\ IqDecoded({"iq_all"})
  /\ dec_in.iq_len = 4
  /\ dec_out.status = "ok"
  /\ Len(dec_out.value.bb0[1]) = 2

\* C28: whenever the coordinator's loop has ended (for any reason) and its
\* cleanup is about to run, the cleanup sets the shutdown signal, the wait
\* for the Receive Loop returns and the coordinator reaches its summary
\* step.
C28_CleanupReachesSummary ==
  (co_pc = "cleanup") ~> (co_pc = "summary")

\* C29: when the coordinator is past its cleanup (summary step or later),
\* every payload the Receive Loop pushed has been popped: nothing is left
\* in the queue.
C29_NothingLeftUnread ==
  co_pc \in {"summary", "stop_peer", "done"} => udp_queue = <<>>

\* C30: the coordinator issues its non-blocking pop only on a queue that
\* holds a payload, whatever the Receive Loop did between the emptiness
\* check and the pop.
C30_PopNeverOnEmptyQueue ==
  co_pc = "get" => udp_queue # <<>>

\* the Receive Loop pushed a second payload between the coordinator's check
\* and its pop
C30_Witness ==
  /\ co_pc = "get"
  /\ Len(udp_queue) >= 2

====
